---- MODULE Spec2Model ----
(***************************************************************************)
(* MacRuby symbol table (symbol.c): rb_intern_str, rb_id2str and           *)
(* Init_PreSymbol over the two dictionaries sym_id (name hash -> ID) and   *)
(* id_str (ID -> rb_sym_t) and the counter last_id.                        *)
(*                                                                         *)
(* A string is a sequence of one-character strings.  An ID is an integer:  *)
(* the low three bits are the scope tag, the rest the sequence number.     *)
(***************************************************************************)
EXTENDS Integers, Sequences, FiniteSets, TLC

VARIABLES
    sym_id,     \* symbol.c:21  dictionary name_hash -> ID
    id_str,     \* symbol.c:21  dictionary ID -> rb_sym_t
    last_id,    \* symbol.c:22  the sequence counter
    last,       \* the last call made by the sequential client and its result
    first_id,   \* history: the ID the first rb_intern_str(str) call returned
    syms,       \* history: every rb_sym_t the sequential client's calls made
    texts,      \* the strings the clients of this run intern
    th,         \* the threads of the concurrent client (ConcSpec)
    insp        \* the client of Symbol#inspect (EscSpec)

vars ==
    <<sym_id, id_str, last_id, last, first_id, syms, texts, th, insp>>

-----------------------------------------------------------------------------
(* Bounds *)

\* how many sequence numbers the dynamic counter may hand out
MaxSeq == 3

\* number of concurrently running threads in ConcSpec
NThreads == 2
MaxEscLen == 4

-----------------------------------------------------------------------------
(* Scope tags and ID arithmetic (ruby/node.h, id.h; not part of symbol.c) *)

ID_SCOPE_SHIFT == 3
ID_SCOPE_MASK == 7
ID_LOCAL == 0
ID_INSTANCE == 1
ID_GLOBAL == 3
ID_ATTRSET == 4
ID_CONST == 5
ID_CLASS == 6
ID_JUNK == 7

\* reserved parser tokens of the operators (parse.y)
tCMP == 324
tEQ == 325
tEQQ == 326
tLAST_TOKEN == 375

\* 1 << ID_SCOPE_SHIFT
ScopeUnit == 2 ^ ID_SCOPE_SHIFT

\* id & ID_SCOPE_MASK
ScopeOf(id) == id % ScopeUnit

\* id >> ID_SCOPE_SHIFT
SeqOf(id) == id \div ScopeUnit

\* (id & ~ID_SCOPE_MASK) | tag
WithScope(id, tag) == SeqOf(id) * ScopeUnit + tag

is_notop_id(id) == id > tLAST_TOKEN

is_local_id(id) == is_notop_id(id) /\ ScopeOf(id) = ID_LOCAL

is_attrset_id(id) == is_notop_id(id) /\ ScopeOf(id) = ID_ATTRSET

rb_id_attrset(id) == WithScope(id, ID_ATTRSET)

\* the pre-registered operator table, terminated by a zero token in C
rb_op_tbl ==
    << [token |-> tCMP, name |-> <<"<", "=", ">">>],
       [token |-> tEQ,  name |-> <<"=", "=">>],
       [token |-> tEQQ, name |-> <<"=", "=", "=">>] >>

-----------------------------------------------------------------------------
(* Characters *)

LowerChars == {"a", "b"}
UpperChars == {"A"}
DigitChars == {"1"}
NonAsciiChars == {"U+00E9"}

isdigit(c) == c \in DigitChars
iswupper(c) == c \in UpperChars
isalnum(c) == c \in LowerChars \cup UpperChars \cup DigitChars
isascii(c) == c \notin NonAsciiChars
ControlChars == {"\t"}
isalpha(c) == c \in LowerChars \cup UpperChars
isupper(c) == c \in UpperChars
\* isprint in the C locale: no control character, nothing above 127
isprint(c) == c \notin ControlChars \cup NonAsciiChars

\* symbol.c:44-48
is_identchar(c) == isalnum(c) \/ c = "_" \/ ~isascii(c)

\* code unit of a character
CharCode(c) ==
    CASE c = " " -> 32
      [] c = "$" -> 36
      [] c = "1" -> 49
      [] c = "<" -> 60
      [] c = "=" -> 61
      [] c = ">" -> 62
      [] c = "@" -> 64
      [] c = "A" -> 65
      [] c = "_" -> 95
      [] c = "a" -> 97
      [] c = "b" -> 98
      [] c = "U+00E9" -> 233

\* modulus and multiplier of the string hash
HashMod == 1021
HashMul == 31

\* rb_str_hash: a stable integer computed from the content alone; two
\* different strings may hash alike
RECURSIVE HashFrom(_, _, _)
HashFrom(h, str, i) ==
    IF i > Len(str) THEN h
    ELSE HashFrom((h * HashMul + CharCode(str[i])) % HashMod, str, i + 1)

rb_str_hash(str) == HashFrom(Len(str) + 1, str, 1)

\* rb_str_substr(str, 0, len)
rb_str_substr(str, len) == SubSeq(str, 1, len)

-----------------------------------------------------------------------------
(* The table.  A table value T is [sym_id, id_str, last_id]. *)

\* the value CFDictionaryGetValue yields for a missing key, as an rb_sym_t
NoSym == [str |-> <<>>, id |-> 0]

\* symbol.c:32-42
sym_alloc(str, id) == [str |-> str, id |-> id]

\* CFDictionarySetValue(dict, key, value): adds the key or replaces its value
CFDictionarySetValue(dict, key, value) ==
    [k \in DOMAIN dict \cup {key} |-> IF k = key THEN value ELSE dict[k]]

\* CFDictionaryGetValue(sym_id, key): 0 when the key is absent
SymIdGet(dict, key) == IF key \in DOMAIN dict THEN dict[key] ELSE 0

\* CFDictionaryGetValue(id_str, key): 0 (NoSym) when the key is absent
IdStrGet(dict, key) == IF key \in DOMAIN dict THEN dict[key] ELSE NoSym

\* symbol.c:105-114: scan the identifier from pos (0-based); ID_JUNK when
\* the scan does not reach the end, else the category chosen so far
RECURSIVE ScanIdent(_, _)
ScanIdent(chars, pos) ==
    IF pos < Len(chars) /\ is_identchar(chars[pos + 1])
    THEN ScanIdent(chars, pos + 1)
    ELSE pos

ScanScope(chars, pos, id) ==
    LET pos2 == IF pos < Len(chars) /\ ~isdigit(chars[pos + 1])
                THEN ScanIdent(chars, pos)
                ELSE pos
    IN  IF pos2 < Len(chars) THEN ID_JUNK ELSE id

\* id_register with the write of sym_id left out
IdRegister_NoSymId(T, str, id) ==
    [sym_id  |-> T.sym_id,
     id_str  |-> CFDictionarySetValue(T.id_str, id, sym_alloc(str, id)),
     last_id |-> T.last_id,
     id      |-> id]

\* id_register with sym_id written under the ID instead of the hash
IdRegister_KeyById(T, str, id) ==
    [sym_id  |-> CFDictionarySetValue(T.sym_id, id, id),
     id_str  |-> CFDictionarySetValue(T.id_str, id, sym_alloc(str, id)),
     last_id |-> T.last_id,
     id      |-> id]

\* symbol.c:119-123 (id_register): both dictionaries are written
IdRegister(T, str, id) ==
    [sym_id  |-> CFDictionarySetValue(T.sym_id, rb_str_hash(str), id),
     id_str  |-> CFDictionarySetValue(T.id_str, id, sym_alloc(str, id)),
     last_id |-> T.last_id,
     id      |-> id]

\* new_id with the incremented counter not stored back
NewId_NoIncrement(T, str, id) ==
    IdRegister(T, str, id + (T.last_id + 1) * ScopeUnit)

\* symbol.c:116-117 (new_id): id |= ++last_id << ID_SCOPE_SHIFT
NewId(T, str, id) ==
    IdRegister([T EXCEPT !.last_id = T.last_id + 1], str,
               id + (T.last_id + 1) * ScopeUnit)

\* the attribute assignment test with chars_len > 2 for chars_len > 1
IsAttrName_LongOnly(str) ==
    /\ Len(str) > 2
    /\ str[1] \notin {"$", "@"}
    /\ str[Len(str)] = "="

\* symbol.c:85-88: the default branch takes the string for an attribute
\* assignment name and interns the string without its last character
IsAttrName(str) ==
    /\ Len(str) > 1
    /\ str[1] \notin {"$", "@"}
    /\ str[Len(str)] = "="

\* the classification with the test for a second "@" left out
FirstScope_NoClass(str, id0) ==
    IF Len(str) = 0 THEN ScanScope(str, 0, id0)
    ELSE IF str[1] = "$" THEN ID_GLOBAL
    ELSE IF str[1] = "@" THEN ScanScope(str, 1, ID_INSTANCE)
    ELSE IF iswupper(str[1]) THEN ScanScope(str, 0, ID_CONST)
    ELSE ScanScope(str, 0, ID_LOCAL)

\* symbol.c:66-114 for the other strings: the scope the string gets at
\* new_id; id0 is the value id holds on entry (the 0 of the failed lookup)
FirstScope(str, id0) ==
    IF Len(str) = 0 THEN ScanScope(str, 0, id0)
    ELSE IF str[1] = "$" THEN ID_GLOBAL
    ELSE IF str[1] = "@" THEN
        IF Len(str) > 1 /\ str[2] = "@"
        THEN ScanScope(str, 2, ID_CLASS)
        ELSE ScanScope(str, 1, ID_INSTANCE)
    ELSE IF iswupper(str[1]) THEN ScanScope(str, 0, ID_CONST)
    ELSE ScanScope(str, 0, ID_LOCAL)

\* the lookup made in id_str, which is keyed by ID: it finds no hash
LookupId_WrongDict(dict, str) == SymIdGet(<<>>, rb_str_hash(str))

\* symbol.c:53-57: the ID the hash of str is registered under, or 0
LookupId(dict, str) == SymIdGet(dict, rb_str_hash(str))

\* symbol.c:50-129.  Returns the table after the call with the ID in .id
RECURSIVE rb_intern_str(_, _)
rb_intern_str(T, str) ==
    LET found == LookupId(T.sym_id, str)
        T0    == [sym_id |-> T.sym_id, id_str |-> T.id_str,
                  last_id |-> T.last_id]
    IN  IF found # 0 THEN
            [sym_id |-> T.sym_id, id_str |-> T.id_str,
             last_id |-> T.last_id, id |-> found]
        ELSE IF IsAttrName(str) THEN
            \* Attribute assignment.
            LET R == rb_intern_str(T0, rb_str_substr(str, Len(str) - 1))
            IN  IF ~is_attrset_id(R.id)
                THEN IdRegister(R, str, rb_id_attrset(R.id))
                ELSE NewId(R, str, ScanScope(str, 0, ID_ATTRSET))
        ELSE
            NewId(T0, str, FirstScope(str, found))

\* symbol.c:131-165.  Returns the table after the call with the record
\* found in .sym (NoSym for the C value 0)
RECURSIVE rb_id2str(_, _)
rb_id2str(T, id) ==
    LET T0  == [sym_id |-> T.sym_id, id_str |-> T.id_str,
                last_id |-> T.last_id]
        Ret(Tx, sym) == [sym_id |-> Tx.sym_id, id_str |-> Tx.id_str,
                         last_id |-> Tx.last_id, sym |-> sym]
        sym == IdStrGet(T.id_str, id)
    IN  IF sym # NoSym THEN Ret(T0, sym)
        ELSE IF is_attrset_id(id) THEN
            \* Attribute assignment.
            LET idl == WithScope(id, ID_LOCAL)
                idc == WithScope(id, ID_CONST)
                R1  == rb_id2str(T0, idl)
                R2  == rb_id2str(R1, idc)
            IN  IF R1.sym = NoSym /\ ~is_local_id(idl) THEN Ret(R1, NoSym)
                ELSE IF R1.sym = NoSym /\ R2.sym = NoSym THEN
                    \* is_local_id(idc) is false: the loop returns 0
                    Ret(R2, NoSym)
                ELSE
                    LET B   == IF R1.sym # NoSym THEN R1 ELSE R2
                        str == Append(B.sym.str, "=")
                        R3  == rb_intern_str(B, str)
                    IN  \* Retry one more time.
                        Ret(R3, IdStrGet(R3.id_str, id))
        ELSE Ret(T0, NoSym)

\* CFDictionaryGetKeysAndValues (symbol.c:233): one value for each key of
\* dict; the order is not specified, here it is the order of the keys
RECURSIVE CFDictionaryGetValues(_, _)
CFDictionaryGetValues(dict, keys) ==
    IF keys = {} THEN <<>>
    ELSE LET k == CHOOSE k \in keys : \A j \in keys : k <= j
         IN  <<dict[k]>> \o CFDictionaryGetValues(dict, keys \ {k})

\* symbol.c:226-240: the array of the values of id_str
rsym_all_symbols(T) == CFDictionaryGetValues(T.id_str, DOMAIN T.id_str)

\* symbol.c:242-261: the table after the bootstrap
RECURSIVE PreRegister(_, _)
PreRegister(T, i) ==
    IF i > Len(rb_op_tbl) THEN T
    ELSE LET id  == rb_op_tbl[i].token
             str == rb_op_tbl[i].name
         IN  PreRegister(
                 [sym_id  |-> CFDictionarySetValue(T.sym_id, rb_str_hash(str), id),
                  id_str  |-> CFDictionarySetValue(T.id_str, id, sym_alloc(str, id)),
                  last_id |-> T.last_id],
                 i + 1)

\* last_id = 1000 (symbol.c:247)
FirstSeq == 1000

Init_PreSymbol ==
    PreRegister([sym_id |-> <<>>, id_str |-> <<>>, last_id |-> FirstSeq], 1)

-----------------------------------------------------------------------------
(* Symbol#inspect.  pos counts the characters consumed (the 0-based index  *)
(* of symbol.c); a branch of the switch ends in a jump to bail with the    *)
(* value of escape, or in the break that leads to the test of line 523.    *)

Bail(escape) == [bail |-> TRUE, escape |-> escape, pos |-> 0]
Break(pos) == [bail |-> FALSE, escape |-> FALSE, pos |-> pos]

\* chars[pos] is there and is the character c
At(chars, pos, c) == pos < Len(chars) /\ chars[pos + 1] = c

\* the first characters that symbol.c:330-333 take for a special global
\* name (U+0060 is the backquote, U+0027 the single quote)
SpecialGlobalChars ==
    {"~", "*", "$", "?", "!", "@", "/", "\\", ";", ",", ".", "=", ":", "<",
     ">", "\"", "&", "U+0060", "U+0027", "+", "0"}

\* symbol.c:348-351: the digits from pos on
RECURSIVE ScanDigits(_, _)
ScanDigits(ptr, pos) ==
    IF pos < Len(ptr) /\ isdigit(ptr[pos + 1])
    THEN ScanDigits(ptr, pos + 1)
    ELSE pos

\* symbol.c:321-355
is_special_global_name(ptr) ==
    IF Len(ptr) <= 0 THEN FALSE
    ELSE IF ptr[1] \in SpecialGlobalChars THEN 1 = Len(ptr)
    ELSE IF ptr[1] = "-" THEN
        (IF 1 < Len(ptr) /\ is_identchar(ptr[2]) THEN 2 ELSE 1) = Len(ptr)
    ELSE IF ~isdigit(ptr[1]) THEN FALSE
    ELSE ScanDigits(ptr, 1) = Len(ptr)

\* symbol.c:503-520 (id)
IdBranch(chars, pos, localid) ==
    IF pos >= Len(chars)
       \/ (/\ chars[pos + 1] # "_"
           /\ ~isalpha(chars[pos + 1])
           /\ isascii(chars[pos + 1]))
    THEN Bail(TRUE)
    ELSE LET pos2 == ScanIdent(chars, pos)
         IN  IF localid /\ pos2 < Len(chars)
                /\ chars[pos2 + 1] \in {"!", "?", "="}
             THEN Break(pos2 + 1)
             ELSE Break(pos2)

\* symbol.c:471-481 (case '['): line 477 steps over the "]" without a test
\* that it is there
BracketBranch(chars) ==
    IF 1 < Len(chars) /\ chars[2] # "]" THEN Bail(TRUE)
    ELSE IF At(chars, 2, "=") THEN Break(3)
    ELSE Break(2)

\* symbol.c:384-521: the switch on the first character
SwitchFirst(chars) ==
    LET c == chars[1]
    IN  CASE c = "$" ->
               IF 1 < Len(chars)
                  /\ is_special_global_name(SubSeq(chars, 2, Len(chars)))
               THEN Bail(FALSE)
               ELSE IdBranch(chars, 1, FALSE)
          [] c = "@" ->
               IdBranch(chars, IF At(chars, 1, "@") THEN 2 ELSE 1, FALSE)
          [] c = "<" ->
               IF At(chars, 1, "<") THEN Break(2)
               ELSE IF At(chars, 1, "=")
               THEN (IF At(chars, 2, ">") THEN Break(3) ELSE Break(2))
               ELSE Break(1)
          [] c = ">" ->
               IF At(chars, 1, ">") \/ At(chars, 1, "=")
               THEN Break(2) ELSE Break(1)
          [] c = "=" ->
               IF 1 = Len(chars) THEN Bail(TRUE)
               ELSE IF chars[2] = "~" THEN Break(2)
               ELSE IF chars[2] = "="
               THEN (IF At(chars, 2, "=") THEN Break(3) ELSE Break(2))
               ELSE Bail(TRUE)
          [] c = "*" ->
               IF At(chars, 1, "*") THEN Break(2) ELSE Break(1)
          [] c \in {"+", "-"} ->
               IF At(chars, 1, "@") THEN Break(2) ELSE Break(1)
          [] c \in {"|", "^", "&", "/", "%", "~", "U+0060"} -> Break(1)
          [] c = "[" -> BracketBranch(chars)
          [] c = "!" ->
               IF 1 = Len(chars) THEN Bail(FALSE)
               ELSE IF chars[2] \in {"=", "~"} THEN Break(2)
               ELSE Bail(TRUE)
          [] OTHER -> IdBranch(chars, 0, ~isupper(c))

\* the test for characters left over with an index off by one
Unconsumed_OffByOne(chars, pos) == pos + 1 < Len(chars)

\* symbol.c:523-525: characters are left after the pattern
Unconsumed(chars, pos) == pos < Len(chars)

\* symbol.c:357-533.  The case of the NUL character (line 385) is never
\* taken: a string with that character has left at line 378.
sym_should_be_escaped(sym) ==
    LET chars == sym.str
    IN  IF Len(chars) = 0 THEN TRUE
        ELSE IF \E i \in 1..Len(chars) : ~isprint(chars[i]) THEN TRUE
        ELSE LET r == SwitchFirst(chars)
             IN  IF r.bail THEN r.escape ELSE Unconsumed(chars, r.pos)

\* the text rb_str_inspect prints for a character
InspectChar(c) ==
    CASE c = "\t" -> <<"\\", "t">>
      [] c = "\"" -> <<"\\", "\"">>
      [] c = "\\" -> <<"\\", "\\">>
      [] OTHER -> <<c>>

RECURSIVE InspectChars(_)
InspectChars(str) ==
    IF str = <<>> THEN <<>>
    ELSE InspectChar(Head(str)) \o InspectChars(Tail(str))

\* rb_str_inspect: the string between double quotes, with the double quote,
\* the backslash and the characters that do not print written as escapes
rb_str_inspect(str) == <<"\"">> \o InspectChars(str) \o <<"\"">>

\* symbol.c:535-546
rsym_inspect(sym) ==
    <<":">> \o (IF sym_should_be_escaped(sym)
                THEN rb_str_inspect(sym.str)
                ELSE sym.str)

-----------------------------------------------------------------------------
(* The clients *)

\* the strings of a run: each run draws its strings from one workload
AttrTexts ==
    { <<>>, <<"a">>, <<"A">>, <<"a", "=">>, <<"A", "=">>, <<"a", "=", "=">>,
      <<"=">> }

OpTexts ==
    { <<"<", "=", ">">>, <<"=", "=">>, <<"=", "=", "=">>,
      <<"<", "=", ">", "=">>, <<"=", "=", "=", "=">>, <<"a">>, <<"a", "=">> }

ShapeTexts ==
    { <<"a">>, <<"A">>, <<"@", "a">>, <<"@", "@", "a">>, <<"$", "a">>,
      <<"a", "=">>, <<"U+00E9">> }

JunkTexts ==
    { <<"$", " ">>, <<"@", " ">>, <<"a", " ">>, <<"a", " ", "=">>,
      <<"1">>, <<"1", "=">>, <<"1", "a">> }

\* <<"b", "_">> and <<"A", "a">> have the same rb_str_hash
HashTexts ==
    { <<"b", "_">>, <<"A", "a">>, <<"b", "_", "=">>, <<"a">> }

Workloads == {AttrTexts, OpTexts, ShapeTexts, JunkTexts, HashTexts}

Texts == UNION Workloads

\* the strings the threads of the concurrent client intern
ConcTexts == { <<"a">>, <<"a", "=">>, <<"A", "=">> }

\* the names of the bootstrap tokens
TokenNames == {rb_op_tbl[i].name : i \in 1..Len(rb_op_tbl)}

\* the reserved IDs
TokenIds == {rb_op_tbl[i].token : i \in 1..Len(rb_op_tbl)}

\* the IDs a client resolves: every ID that has a record, the
\* AttributeSetter ID of every sequence number the counter can hand out, and
\* two IDs just above tLAST_TOKEN that no call registers (one Local, one
\* AttributeSetter)
ResolveIds(dict) ==
    DOMAIN dict
    \cup {seq * ScopeUnit + ID_ATTRSET :
              seq \in (FirstSeq + 1)..(FirstSeq + MaxSeq)}
    \cup {WithScope(tLAST_TOKEN + ScopeUnit, ID_LOCAL),
          WithScope(tLAST_TOKEN + ScopeUnit, ID_ATTRSET)}

Table == [sym_id |-> sym_id, id_str |-> id_str, last_id |-> last_id]

\* again: rb_intern_str had been called on str before this call
NoCall ==
    [op |-> "none", str |-> <<>>, id |-> 0, sym |-> NoSym, again |-> FALSE,
     ary |-> <<>>]

\* the client of Symbol#inspect before it has begun
NoInspect == [pc |-> "type", str |-> <<>>, out |-> <<>>]

\* the rb_sym_t values of a dictionary
Records(dict) == {dict[k] : k \in DOMAIN dict}

InitTable ==
    /\ sym_id = Init_PreSymbol.sym_id
    /\ id_str = Init_PreSymbol.id_str
    /\ last_id = Init_PreSymbol.last_id
    /\ last = NoCall
    /\ first_id = [s \in Texts |-> 0]
    /\ syms = Records(Init_PreSymbol.id_str)
    /\ insp = NoInspect

Init ==
    /\ InitTable
    /\ texts \in Workloads
    /\ th = <<>>

\* the client calls rb_intern_str(str)
Intern(str) ==
    LET R == rb_intern_str(Table, str)
    IN  /\ last.op = "none"
        /\ R.last_id <= FirstSeq + MaxSeq
        /\ sym_id' = R.sym_id
        /\ id_str' = R.id_str
        /\ last_id' = R.last_id
        /\ last' = [op |-> "intern", str |-> str, id |-> R.id, sym |-> NoSym,
                    again |-> first_id[str] # 0, ary |-> <<>>]
        /\ syms' = syms \cup Records(R.id_str)
        /\ first_id' = IF first_id[str] = 0
                       THEN [first_id EXCEPT ![str] = R.id]
                       ELSE first_id
        /\ UNCHANGED <<texts, th, insp>>

\* the client calls rb_id2str(id)
Resolve(id) ==
    LET R == rb_id2str(Table, id)
    IN  /\ last.op = "none"
        /\ R.last_id <= FirstSeq + MaxSeq
        /\ sym_id' = R.sym_id
        /\ id_str' = R.id_str
        /\ last_id' = R.last_id
        /\ last' = [op |-> "resolve", str |-> <<>>, id |-> id, sym |-> R.sym,
                    again |-> FALSE, ary |-> <<>>]
        /\ syms' = syms \cup Records(R.id_str)
        /\ UNCHANGED <<first_id, texts, th, insp>>

\* the client calls rsym_all_symbols
All ==
    /\ last.op = "none"
    /\ last' = [op |-> "all", str |-> <<>>, id |-> 0, sym |-> NoSym,
                again |-> FALSE, ary |-> rsym_all_symbols(Table)]
    /\ UNCHANGED <<sym_id, id_str, last_id, first_id, syms, texts, th, insp>>

\* the client takes the result of its call and goes on
Return ==
    /\ last.op # "none"
    /\ last' = NoCall
    /\ UNCHANGED <<sym_id, id_str, last_id, first_id, syms, texts, th, insp>>

Next ==
    \/ \E str \in texts : Intern(str)
    \/ \E id \in ResolveIds(id_str) : Resolve(id)
    \/ All
    \/ Return

Spec == Init /\ [][Next]_vars

-----------------------------------------------------------------------------
(* The concurrent client.  symbol.c takes no lock: the threads run        *)
(* rb_intern_str and rb_id2str statement by statement on the shared        *)
(* sym_id, id_str and last_id.  Each dictionary call is one step, and the  *)
(* unsynchronised ++last_id is a load and a store.  A thread interns one   *)
(* string and may then resolve the ID it was given.                        *)

Threads == 1..NThreads

IdleThread ==
    [pc |-> "idle", stack |-> <<>>, str |-> <<>>, id |-> 0, tmp |-> 0,
     rid |-> 0, ret |-> 0, sym |-> NoSym]

ConcInit ==
    /\ InitTable
    /\ texts = ConcTexts
    /\ th = [t \in Threads |-> IdleThread]

TableUnchanged == UNCHANGED <<sym_id, id_str, last_id>>

ClientUnchanged == UNCHANGED <<last, first_id, syms, texts, insp>>

\* thread t enters rb_intern_str(str)
T_Call(t, str) ==
    /\ th[t].pc = "idle"
    /\ th' = [th EXCEPT ![t].pc = "lookup", ![t].stack = <<str>>,
                        ![t].str = str]
    /\ TableUnchanged /\ ClientUnchanged

\* symbol.c:53-114: the lookup, and on a miss the classification, which
\* reads no shared state; line 88 enters rb_intern_str for the prefix
T_Lookup(t) ==
    LET str   == Head(th[t].stack)
        found == LookupId(sym_id, str)
    IN  /\ th[t].pc = "lookup"
        /\ th' = IF found # 0 THEN
                     [th EXCEPT ![t].pc = "return", ![t].id = found]
                 ELSE IF IsAttrName(str) THEN
                     [th EXCEPT ![t].stack =
                          <<rb_str_substr(str, Len(str) - 1)>> \o @]
                 ELSE
                     [th EXCEPT ![t].pc = "new_id_load",
                                ![t].id = FirstScope(str, found)]
        /\ TableUnchanged /\ ClientUnchanged

\* symbol.c:117: ++last_id reads the counter ...
T_NewIdLoad(t) ==
    /\ th[t].pc = "new_id_load"
    /\ th' = [th EXCEPT ![t].pc = "new_id_store", ![t].tmp = last_id]
    /\ TableUnchanged /\ ClientUnchanged

\* ... and writes it back incremented; id |= last_id << ID_SCOPE_SHIFT
T_NewIdStore(t) ==
    /\ th[t].pc = "new_id_store"
    /\ last_id' = th[t].tmp + 1
    /\ th' = [th EXCEPT ![t].pc = "reg_sym",
                        ![t].id = @ + (th[t].tmp + 1) * ScopeUnit]
    /\ UNCHANGED <<sym_id, id_str>> /\ ClientUnchanged

\* symbol.c:122
T_RegSym(t) ==
    /\ th[t].pc = "reg_sym"
    /\ sym_id' = CFDictionarySetValue(sym_id, rb_str_hash(Head(th[t].stack)),
                                      th[t].id)
    /\ th' = [th EXCEPT ![t].pc = "reg_str"]
    /\ UNCHANGED <<id_str, last_id>> /\ ClientUnchanged

\* symbol.c:123
T_RegStr(t) ==
    /\ th[t].pc = "reg_str"
    /\ id_str' = CFDictionarySetValue(id_str, th[t].id,
                                      sym_alloc(Head(th[t].stack), th[t].id))
    /\ th' = [th EXCEPT ![t].pc = "return"]
    /\ UNCHANGED <<sym_id, last_id>> /\ ClientUnchanged

\* symbol.c:56, 128: rb_intern_str returns id, to the client, to line 157
\* of rb_id2str, or to line 89 of the rb_intern_str that called it
T_Return(t) ==
    LET rest == Tail(th[t].stack)
        id   == th[t].id
    IN  /\ th[t].pc = "return"
        /\ th' = IF rest = <<>> THEN
                     IF th[t].rid # 0
                     THEN [th EXCEPT ![t].stack = rest, ![t].pc = "r_retry"]
                     ELSE [th EXCEPT ![t].stack = rest, ![t].pc = "got_id",
                                     ![t].ret = id]
                 ELSE IF ~is_attrset_id(id) THEN
                     [th EXCEPT ![t].stack = rest, ![t].pc = "reg_sym",
                                ![t].id = rb_id_attrset(id)]
                 ELSE
                     [th EXCEPT ![t].stack = rest, ![t].pc = "new_id_load",
                                ![t].id = ScanScope(Head(rest), 0, ID_ATTRSET)]
        /\ TableUnchanged /\ ClientUnchanged

\* thread t enters rb_id2str with the ID rb_intern_str gave it
T_Resolve(t) ==
    /\ th[t].pc = "got_id"
    /\ th' = [th EXCEPT ![t].pc = "r_lookup", ![t].rid = th[t].ret]
    /\ TableUnchanged /\ ClientUnchanged

\* symbol.c:134-140
T_RLookup(t) ==
    LET sym == IdStrGet(id_str, th[t].rid)
    IN  /\ th[t].pc = "r_lookup"
        /\ th' = IF sym # NoSym THEN
                     [th EXCEPT ![t].pc = "got_sym", ![t].sym = sym]
                 ELSE IF is_attrset_id(th[t].rid) THEN
                     [th EXCEPT ![t].pc = "r_local"]
                 ELSE
                     [th EXCEPT ![t].pc = "got_sym", ![t].sym = NoSym]
        /\ TableUnchanged /\ ClientUnchanged

\* symbol.c:142-154 with id2 of scope tag: the lookup of id2 and, when it
\* hits, the call of rb_intern_str on the record's string with "=" appended
DeriveStep(t, tag, missPc) ==
    LET id2 == WithScope(th[t].rid, tag)
        sym == IdStrGet(id_str, id2)
    IN  th' = IF sym # NoSym THEN
                  [th EXCEPT ![t].pc = "lookup",
                             ![t].stack = <<Append(sym.str, "=")>>]
              ELSE IF ~is_local_id(id2) THEN
                  [th EXCEPT ![t].pc = "got_sym", ![t].sym = NoSym]
              ELSE
                  [th EXCEPT ![t].pc = missPc]

\* the first turn of the loop of symbol.c:144, id2 Local
T_RLocal(t) ==
    /\ th[t].pc = "r_local"
    /\ DeriveStep(t, ID_LOCAL, "r_const")
    /\ TableUnchanged /\ ClientUnchanged

\* the second turn of the loop, id2 Constant
T_RConst(t) ==
    /\ th[t].pc = "r_const"
    /\ DeriveStep(t, ID_CONST, "r_const")
    /\ TableUnchanged /\ ClientUnchanged

\* symbol.c:157-164
T_RRetry(t) ==
    /\ th[t].pc = "r_retry"
    /\ th' = [th EXCEPT ![t].pc = "got_sym",
                        ![t].sym = IdStrGet(id_str, th[t].rid)]
    /\ TableUnchanged /\ ClientUnchanged

ConcNext ==
    \E t \in Threads :
        \/ \E str \in texts : T_Call(t, str)
        \/ T_Lookup(t)
        \/ T_NewIdLoad(t)
        \/ T_NewIdStore(t)
        \/ T_RegSym(t)
        \/ T_RegStr(t)
        \/ T_Return(t)
        \/ T_Resolve(t)
        \/ T_RLookup(t)
        \/ T_RLocal(t)
        \/ T_RConst(t)
        \/ T_RRetry(t)

ConcSpec == ConcInit /\ [][ConcNext]_vars

-----------------------------------------------------------------------------
(* The client of Symbol#inspect: it writes a string of up to MaxEscLen     *)
(* characters of EscChars, character by character, and inspects the Symbol *)
(* of that string.                                                         *)

EscChars == {"a", "A", "1", " ", "\t", "=", "[", "]", "+", "@", "$"}

EscInit ==
    /\ InitTable
    /\ texts = {}
    /\ th = <<>>

\* the client writes the character c
TypeChar(c) ==
    /\ insp.pc = "type"
    /\ Len(insp.str) < MaxEscLen
    /\ insp' = [insp EXCEPT !.str = Append(@, c)]
    /\ UNCHANGED <<sym_id, id_str, last_id, last, first_id, syms, texts, th>>

\* the client calls rsym_inspect on the Symbol of its string
Inspect ==
    /\ insp.pc = "type"
    /\ insp' = [insp EXCEPT !.pc = "done",
                            !.out = rsym_inspect(sym_alloc(insp.str, 0))]
    /\ UNCHANGED <<sym_id, id_str, last_id, last, first_id, syms, texts, th>>

EscNext ==
    \/ \E c \in EscChars : TypeChar(c)
    \/ Inspect

EscSpec == EscInit /\ [][EscNext]_vars

-----------------------------------------------------------------------------
(* Properties *)

\* the ID the first rb_intern_str(str) call of the client returned, 0 if
\* the client has not called it
FirstId(str) == IF str \in Texts THEN first_id[str] ELSE 0

\* no other string of the workloads has the hash of str
HashUnique(str) ==
    \A other \in Texts : rb_str_hash(other) = rb_str_hash(str) => other = str

\* the step is a call of rb_intern_str by the sequential client
InternStep == last.op = "none" /\ last'.op = "intern"

\* the step is a call of rb_id2str by the sequential client
ResolveStep == last.op = "none" /\ last'.op = "resolve"

\* str and what is left of it as the trailing "=" are taken off one by one
RECURSIVE BaseChain(_)
BaseChain(str) ==
    IF IsAttrName(str)
    THEN {str} \cup BaseChain(rb_str_substr(str, Len(str) - 1))
    ELSE {str}

\* the largest reserved ID
MaxTokenId == CHOOSE m \in TokenIds : \A k \in TokenIds : k <= m

\* C1: every rb_intern_str(str) call returns the ID the first call on str
\* returned, whatever was interned or resolved in between.
C1_InternIdempotent ==
    last.op = "intern" => last.id = first_id[last.str]

\* C1 witness: "a" is interned again after two other sequence numbers were
\* handed out since its own.
C1_Witness ==
    /\ last.op = "intern" /\ last.again
    /\ last.str = <<"a">>
    /\ last_id = SeqOf(last.id) + 2

\* C2: two different strings with different hashes never get the same ID.
C2_InternInjective ==
    \A s1, s2 \in Texts :
        (/\ s1 # s2
         /\ rb_str_hash(s1) # rb_str_hash(s2)
         /\ first_id[s1] # 0
         /\ first_id[s2] # 0) => first_id[s1] # first_id[s2]

\* C3: resolving the ID rb_intern_str(str) returned yields a record whose
\* text is str, also after further calls (said of the strings whose hash no
\* other string shares).
C3_RoundTrip ==
    last.op = "resolve" =>
        \A str \in Texts :
            first_id[str] = last.id /\ HashUnique(str) => last.sym.str = str

\* C4: when all threads intern the same unseen string, they all get the
\* same ID, id_str holds one record of the string and last_id has advanced
\* by one.
C4_ConcurrentSameText ==
    \A str \in ConcTexts :
        (\A t \in Threads : th[t].str = str /\ th[t].ret # 0) =>
            /\ \A t, u \in Threads : th[t].ret = th[u].ret
            /\ Cardinality({id \in DOMAIN id_str : id_str[id].str = str}) = 1
            /\ last_id = FirstSeq + 1

\* C5: when str was interned as Local or Constant and str + "=" never was,
\* rb_id2str of the AttributeSetter ID of str's sequence number returns
\* str + "=", after which that ID has a record and str + "=" interns to it
\* (said of the strings whose hash no other string shares).
C5_SetterDerivation ==
    last.op = "resolve" /\ is_attrset_id(last.id) =>
        \A str \in Texts :
            (/\ first_id[str] # 0
             /\ ScopeOf(first_id[str]) \in {ID_LOCAL, ID_CONST}
             /\ SeqOf(first_id[str]) = SeqOf(last.id)
             /\ HashUnique(str) /\ HashUnique(Append(str, "="))
             /\ FirstId(Append(str, "=")) = 0) =>
                /\ last.sym.str = Append(str, "=")
                /\ last.id \in DOMAIN id_str
                /\ LookupId(sym_id, Append(str, "=")) = last.id

\* C6: a token name interns to its reserved ID; any other string interns to
\* an ID that is no reserved ID and lies above all of them.
C6_BootstrapStable ==
    last.op = "intern" =>
        /\ \A i \in 1..Len(rb_op_tbl) :
               last.str = rb_op_tbl[i].name => last.id = rb_op_tbl[i].token
        /\ last.str \notin TokenNames =>
               last.id \notin TokenIds /\ last.id > MaxTokenId

\* C7: an entry of id_str is never replaced or removed.
C7_RecordsImmutable ==
    [][\A id \in DOMAIN id_str :
           id \in DOMAIN id_str' /\ id_str'[id] = id_str[id]]_vars

\* C8: an rb_id2str call that returns 0 leaves sym_id, id_str and last_id
\* as they were.
C8_NotFoundPure ==
    [][(ResolveStep /\ last'.sym = NoSym) =>
           UNCHANGED <<sym_id, id_str, last_id>>]_vars

\* C9: every ID sym_id holds has its record in id_str, and a thread that
\* resolves the ID rb_intern_str gave it gets a record.
C9_NoHalfRegistered ==
    /\ \A h \in DOMAIN sym_id : sym_id[h] \in DOMAIN id_str
    /\ \A t \in Threads : th[t].pc = "got_sym" => th[t].sym # NoSym

IsIdentifier(str) ==
    /\ Len(str) > 0
    /\ str[1] \in LowerChars \cup UpperChars \cup {"_"}
    /\ \A i \in 1..Len(str) : is_identchar(str[i])

\* the scope C11 names for the shape of str, -1 for the other shapes
ShapeScope(str) ==
    IF IsIdentifier(str) /\ str[1] \in LowerChars THEN ID_LOCAL
    ELSE IF IsIdentifier(str) /\ str[1] \in UpperChars THEN ID_CONST
    ELSE IF Len(str) > 2 /\ str[1] = "@" /\ str[2] = "@"
            /\ IsIdentifier(SubSeq(str, 3, Len(str))) THEN ID_CLASS
    ELSE IF Len(str) > 1 /\ str[1] = "@"
            /\ IsIdentifier(SubSeq(str, 2, Len(str))) THEN ID_INSTANCE
    ELSE IF Len(str) > 1 /\ str[1] = "$"
            /\ IsIdentifier(SubSeq(str, 2, Len(str))) THEN ID_GLOBAL
    ELSE IF Len(str) > 1 /\ str[Len(str)] = "="
            /\ IsIdentifier(SubSeq(str, 1, Len(str) - 1))
            /\ str[1] \in LowerChars \cup UpperChars THEN ID_ATTRSET
    ELSE -1

\* no record holds another string with the hash of str
NoCollision(str) ==
    \A id \in DOMAIN id_str :
        rb_str_hash(id_str[id].str) = rb_str_hash(str) => id_str[id].str = str

\* C11 as stated: the ID rb_intern_str returns for a name of one of the
\* shapes carries the scope tag of the shape, whatever was interned before.
C11_ShapeScopeAlways ==
    (last.op = "intern" /\ ShapeScope(last.str) # -1) =>
        ScopeOf(last.id) = ShapeScope(last.str)

\* neither str nor, for an attribute assignment name, the name before its
\* "=" shares its hash with another string that has a record
ShapeClear(str) ==
    /\ NoCollision(str)
    /\ ShapeScope(str) = ID_ATTRSET => NoCollision(SubSeq(str, 1, Len(str) - 1))

\* C11 amended: the same, when no other string with the hash of the name (or
\* of the name before the "=") has been interned.
C11_ShapeScope ==
    (last.op = "intern" /\ ShapeScope(last.str) # -1 /\ ShapeClear(last.str))
        => ScopeOf(last.id) = ShapeScope(last.str)

\* C11 witness: "@@a" is interned as a Class name after two other names.
C11_Witness ==
    /\ last.op = "intern" /\ ~last.again
    /\ last.str = <<"@", "@", "a">>
    /\ ScopeOf(last.id) = ID_CLASS
    /\ last_id = FirstSeq + 3

\* the number of entries of the array ary that are the record r
Entries(ary, r) == Cardinality({i \in DOMAIN ary : ary[i] = r})

\* C13: rsym_all_symbols returns one entry for every rb_sym_t made so far and
\* nothing else, and leaves the table as it was.
C13_AllSnapshot ==
    [][last'.op = "all" =>
          /\ \A r \in syms : Entries(last'.ary, r) = 1
          /\ \A i \in DOMAIN last'.ary : last'.ary[i] \in syms
          /\ UNCHANGED <<sym_id, id_str, last_id>>]_vars

\* str without its prefix "$", "@" or "@@"
StripPrefix(str) ==
    IF Len(str) > 1 /\ str[1] = "@" /\ str[2] = "@"
    THEN SubSeq(str, 3, Len(str))
    ELSE IF Len(str) > 0 /\ str[1] \in {"$", "@"}
    THEN SubSeq(str, 2, Len(str))
    ELSE str

\* str without one "=" at its end
StripSetter(str) ==
    IF Len(str) > 0 /\ str[Len(str)] = "="
    THEN SubSeq(str, 1, Len(str) - 1)
    ELSE str

\* the rest of str, after the prefix and before the "=" of a setter name,
\* has a character that is not an identifier character
HasJunkChar(str) ==
    LET rest == StripSetter(StripPrefix(str))
    IN  \E i \in 1..Len(rest) : ~is_identchar(rest[i])

\* C14: the ID rb_intern_str returns for a name whose rest has a character
\* that is not an identifier character carries ID_JUNK, whatever the prefix
\* (the names of the bootstrap tokens aside).
C14_JunkOverride ==
    (last.op = "intern" /\ last.str \notin TokenNames /\ HasJunkChar(last.str))
        => ScopeOf(last.id) = ID_JUNK

\* C15: the ID rb_intern_str returns for a name that begins with a digit
\* carries ID_JUNK, with any suffix, a "=" at the end included.
C15_DigitLedJunk ==
    (last.op = "intern" /\ Len(last.str) > 0 /\ isdigit(last.str[1]))
        => ScopeOf(last.id) = ID_JUNK

\* r has an ID above the reserved IDs of the bootstrap tokens
AboveTokens(r) == r.id > tLAST_TOKEN

\* r has an ID that new_id made from the counter: above the reserved IDs
\* and not the AttributeSetter ID that symbol.c:90 makes from a base ID
CounterAssigned(r) == AboveTokens(r) /\ ~is_attrset_id(r.id)

\* C17 as stated: no two records above the reserved IDs have the same
\* sequence number, and a new record has a sequence number greater than that
\* of every record made before.
C17_SeqNeverReused ==
    [][\A r \in syms' : AboveTokens(r) =>
           /\ \A q \in syms' : (AboveTokens(q) /\ q # r) =>
                                   SeqOf(q.id) # SeqOf(r.id)
           /\ r \notin syms => \A q \in syms : SeqOf(r.id) > SeqOf(q.id)]_vars

\* C17 amended: the same for the records whose ID new_id made from the
\* counter; an AttributeSetter ID made from a base ID has the sequence number
\* of its base.
C17_CounterSeqNeverReused ==
    [][\A r \in syms' : CounterAssigned(r) =>
           /\ \A q \in syms' : (CounterAssigned(q) /\ q # r) =>
                                   SeqOf(q.id) # SeqOf(r.id)
           /\ r \notin syms => \A q \in syms : SeqOf(r.id) > SeqOf(q.id)]_vars

\* C17 witness: a name gets the second sequence number while an
\* AttributeSetter record has the first.
C17_Witness ==
    /\ last.op = "intern" /\ ~last.again
    /\ ~is_attrset_id(last.id)
    /\ SeqOf(last.id) = FirstSeq + 2
    /\ \E k \in DOMAIN id_str :
           is_attrset_id(k) /\ SeqOf(k) = FirstSeq + 1

\* the IDs whose record holds the string str
RecordIds(str) == {id \in DOMAIN id_str : id_str[id].str = str}

\* s1 and s2 are two strings with one hash
Collide(s1, s2) == s1 # s2 /\ rb_str_hash(s1) = rb_str_hash(s2)

\* C18: when s1 has a record and s2 is another string with the same hash,
\* rb_intern_str(s2) returns the ID of s1, makes no record and leaves the
\* counter alone, and rb_id2str of that ID still returns s1.
C18_CollisionUnified ==
    [][\A s1, s2 \in Texts : (Collide(s1, s2) /\ RecordIds(s1) # {}) =>
           /\ (InternStep /\ last'.str = s2) =>
                  /\ last'.id \in RecordIds(s1)
                  /\ UNCHANGED <<sym_id, id_str, last_id, syms>>
           /\ (ResolveStep /\ first_id[s2] # 0 /\ last'.id = first_id[s2]) =>
                  last'.sym.str = s1]_vars

\* C18 witness: "Aa" was interned after "b_" and got its ID, and rb_id2str of
\* that ID returns "b_".
C18_Witness ==
    /\ last.op = "resolve"
    /\ first_id[<<"b", "_">>] # 0
    /\ first_id[<<"A", "a">>] = first_id[<<"b", "_">>]
    /\ last.id = first_id[<<"A", "a">>]
    /\ last.sym.str = <<"b", "_">>

\* C19: for a name s that is not empty, does not begin with "$" or "@" and
\* has an ID that is no AttributeSetter ID, when s and s + "=" (no token
\* name) have both been interned, in either order, the ID of s + "=" is the
\* ID of s with the scope replaced by ID_ATTRSET.
C19_SetterFamily ==
    \A s \in Texts :
        LET setter == Append(s, "=")
        IN  (/\ Len(s) > 0 /\ s[1] \notin {"$", "@"}
             /\ setter \in Texts /\ setter \notin TokenNames
             /\ first_id[s] # 0 /\ first_id[setter] # 0
             /\ ~is_attrset_id(first_id[s])) =>
                /\ first_id[setter] = WithScope(first_id[s], ID_ATTRSET)
                /\ SeqOf(first_id[setter]) = SeqOf(first_id[s])

\* C19 witness: "a" is interned for the first time after "a=" was, and has
\* the ID of "a=" but for the scope.
C19_Witness ==
    /\ last.op = "intern" /\ ~last.again
    /\ last.str = <<"a">>
    /\ ScopeOf(last.id) = ID_LOCAL
    /\ first_id[<<"a", "=">>] = WithScope(last.id, ID_ATTRSET)

\* s1 and s2 are two names with two hashes, neither the attribute assignment
\* name of the other
Unrelated(s1, s2) ==
    /\ rb_str_hash(s1) # rb_str_hash(s2)
    /\ StripSetter(s1) # StripSetter(s2)

\* C20: two threads that interned two such names were given two IDs with two
\* sequence numbers, and a thread that resolved its ID got its own name.
C20_ConcurrentDistinct ==
    \A t, u \in Threads :
        (/\ t # u
         /\ th[t].ret # 0 /\ th[u].ret # 0
         /\ Unrelated(th[t].str, th[u].str)) =>
            /\ th[t].ret # th[u].ret
            /\ SeqOf(th[t].ret) # SeqOf(th[u].ret)
            /\ th[t].pc = "got_sym" => th[t].sym.str = th[t].str

\* the output of rsym_inspect is the string as it is, after the colon
Bare == insp.out = <<":">> \o insp.str

\* the output of rsym_inspect is the string as rb_str_inspect writes it
Quoted == insp.out = <<":">> \o rb_str_inspect(insp.str)

\* C12: rsym_inspect writes ":" and the string, as it is when
\* sym_should_be_escaped says no and as rb_str_inspect writes it otherwise; an
\* identifier and "+" are written bare, and the empty string, a string with a
\* character that does not print and a string with a space are quoted.
C12_DisplayForm ==
    insp.pc = "done" =>
        /\ IF sym_should_be_escaped(sym_alloc(insp.str, 0))
           THEN Quoted /\ ~Bare
           ELSE Bare /\ ~Quoted
        /\ IsIdentifier(insp.str) => Bare
        /\ insp.str = <<"+">> => Bare
        /\ insp.str = <<>> => insp.out = <<":", "\"", "\"">>
        /\ (\E i \in 1..Len(insp.str) : ~isprint(insp.str[i])) => Quoted
        /\ (\E i \in 1..Len(insp.str) : insp.str[i] = " ") => Quoted

\* C12 witness: the Symbol of "a a" is written with quotes.
C12_Witness ==
    /\ insp.pc = "done"
    /\ insp.str = <<"a", " ", "a">>
    /\ insp.out = <<":", "\"", "a", " ", "a", "\"">>

\* C16: of the strings that begin with "[", rsym_inspect writes "[]" and
\* "[]=" bare and no other.
C16_BracketGrammar ==
    (insp.pc = "done" /\ Len(insp.str) > 0 /\ insp.str[1] = "[") =>
        (Bare <=> insp.str \in { <<"[", "]">>, <<"[", "]", "=">> })

====
